---------------------------- MODULE Spec2Model ----------------------------
(***************************************************************************)
(* Model of amd_analysis.py: the AMDVisualizer measurement / annotation    *)
(* pipeline (draw_contours, draw_vertical_caliper, draw_legend,            *)
(* save_results) and the batch driver main().                              *)
(*                                                                         *)
(* Conventions                                                             *)
(*   - a pixel is <<x, y>>; numpy indexes mask_array[y][x], rows are y.    *)
(*   - a mask (np.array of a single-band image) is a function from its     *)
(*     pixel grid to gray values; mask_array is one over Pixels.           *)
(*   - a str (a file name) is the sequence of its characters.              *)
(*   - a file of output_result/ is File(content), or CutFile(content)     *)
(*     when the write of content failed part-way and left a prefix of the  *)
(*     bytes.                                                              *)
(*   - the overlay is the sequence of draw calls made on it, in order.     *)
(***************************************************************************)
EXTENDS Integers, Sequences, FiniteSets, TLC

----------------------------------------------------------------------------
(* Program constants (amd_analysis.py, lines 15-27 and the drawing code).  *)

INPUT_RAW_DIR == "raw_image"

LABEL_SRF == 161
LABEL_CYST == 115
LABEL_PED == 138
MIN_HEIGHT_FOR_CALIPER == 15

COLORS == [SRF  |-> [hex |-> "#00FFFF", rgb |-> <<0, 255, 255>>],
           Cyst |-> [hex |-> "#FFA500", rgb |-> <<255, 165, 0>>],
           PED  |-> [hex |-> "#FF00FF", rgb |-> <<255, 0, 255>>]]

CaliperLineWidth == 2
CaliperCap == 8
ArrowSize == 7
ArrowTailLen == 6
ArrowGap == 3
LegendOrigin == 12
LegendBlock == 12
LegendGap == 4

----------------------------------------------------------------------------
(* Bounds of the model.                                                    *)

Width == 3          \* image width
MaxPixels == 4      \* most lesion pixels of a free-form pattern mask
MaxFiles == 2       \* most entries of raw_image/ in a batch run

\* Rows: enough for column spans of threshold - 1, threshold and threshold + 1.
Height == MIN_HEIGHT_FOR_CALIPER + 2

Pixels == (0 .. Width - 1) \X (0 .. Height - 1)

\* A gray value that is no lesion code of the table (lines 15-17).
UnknownCodes == {200}

----------------------------------------------------------------------------
(* Small helpers standing for numpy reductions.                            *)

SetMax(S) == CHOOSE m \in S : \A n \in S : n <= m
SetMin(S) == CHOOSE m \in S : \A n \in S : m <= n

\* np.unique(x_idxs): the distinct values, ascending.
RECURSIVE Unique(_)
Unique(S) == IF S = {} THEN <<>>
             ELSE LET m == SetMin(S) IN <<m>> \o Unique(S \ {m})

\* A slip: the indicator taken as a threshold, (mask_array >= label_val).
IndicatorAtLeast(mask, label_val) == {p \in Pixels : mask[p] >= label_val}

\* (mask_array == label_val): the pixels whose code is label_val.
Indicator(mask, label_val) == {p \in Pixels : mask[p] = label_val}

----------------------------------------------------------------------------
(* scipy.ndimage.label(binary_mask) with its default structuring element:  *)
(* generate_binary_structure(2, 1), the cross, i.e. 4-connectivity.        *)
(* Features are numbered 1.. in raster order (row by row) of their first   *)
(* pixel.  Label returns the sequence of features, each a set of pixels.   *)

Structure4(p) == {<<p[1] - 1, p[2]>>, <<p[1] + 1, p[2]>>,
                  <<p[1], p[2] - 1>>, <<p[1], p[2] + 1>>}

\* The full 3 x 3 structure, np.ones((3, 3)): what label() would use for
\* 8-connectivity.
Structure8(p) == {<<p[1] + dx, p[2] + dy>> : dx \in {-1, 0, 1}, dy \in {-1, 0, 1}}
                    \ {p}

\* The default structure of label(): no `structure` argument is passed (line 132).
DefaultStructure(p) == Structure4(p)

RECURSIVE Flood(_, _, _)
Flood(region, frontier, fg) ==
    IF frontier = {} THEN region
    ELSE LET next == {q \in fg \ region :
                          \E p \in frontier : q \in DefaultStructure(p)}
         IN  Flood(region \cup next, next, fg)

RasterIndex(p) == p[2] * Width + p[1]

FirstInRaster(S) == CHOOSE p \in S : \A q \in S : RasterIndex(p) <= RasterIndex(q)

RECURSIVE Label(_)
Label(fg) ==
    IF fg = {} THEN <<>>
    ELSE LET seed == FirstInRaster(fg)
             comp == Flood({seed}, {seed}, fg)
         IN  <<comp>> \o Label(fg \ comp)

----------------------------------------------------------------------------
\* A slip: a converter that scales by a pixel spacing of 2 and names physical
\* units by kind.
format_value_converted(value_px, type) ==
    IF type = "area" THEN [value |-> value_px * 4, unit |-> "mm2"]
    ELSE [value |-> value_px * 2, unit |-> "um"]

(* AMDVisualizer._format_value (lines 62-64): always pixel units.  The     *)
(* callers pass integer counts and spans; float() of such an integer is    *)
(* exact and round(_, 2) of an integral float is that float, so the value  *)
(* is the integer itself (250 stands for 250.0).  `type` is not read.      *)

_format_value(value_px, type) == [value |-> value_px, unit |-> "px"]

----------------------------------------------------------------------------
(* AMDVisualizer.__init__ (lines 30-60).  Every raw image is Width x       *)
(* Height.  A decoded mask file is a single-band image: a function from    *)
(* its own pixel grid to gray values, so that np.array of it is 2-D.       *)
(* overlay_image starts fully transparent: no draw call yet.               *)

\* A decoded mask file: mask_img.size, <<width, height>>, and its pixels.
MaskFile(w, h, pixels) == [size |-> <<w, h>>, pixels |-> pixels]

\* mask_img.resize((w, h), resample=Image.NEAREST): the pixel <<x, y>> of the
\* result is the source pixel under its centre, floor((x + 0.5) * sw / w).
resize(mask_img, w, h) ==
    MaskFile(w, h,
             [p \in (0 .. w - 1) \X (0 .. h - 1) |->
                 mask_img.pixels[<<((2 * p[1] + 1) * mask_img.size[1]) \div (2 * w),
                                   ((2 * p[2] + 1) * mask_img.size[2]) \div (2 * h)>>]])

\* lines 46-48
Resized(mask_img) ==
    IF mask_img.size # <<Width, Height>> THEN resize(mask_img, Width, Height)
    ELSE mask_img

NoLocals == <<>>

AMDVisualizer(filename, mask_img) ==
    [filename     |-> filename,
     width        |-> Width,
     height       |-> Height,
     \* line 33: the decoded raw image, named by its path
     raw_image    |-> <<INPUT_RAW_DIR, filename>>,
     \* line 51: mask_img.convert("RGBA"), the gray g as (g, g, g, 255)
     mask_image   |-> [p \in Pixels |->
                          <<Resized(mask_img).pixels[p], Resized(mask_img).pixels[p],
                            Resized(mask_img).pixels[p], 255>>],
     \* lines 46-48: "Warning: Mask size ... mismatch" is printed
     resized      |-> mask_img.size # <<Width, Height>>,
     \* line 52: np.array(mask_img)
     mask_array   |-> Resized(mask_img).pixels,
     overlay      |-> <<>>,
     labeled      |-> NoLocals,
     results      |-> [filename     |-> filename,
                       image_width  |-> Width,
                       image_height |-> Height,
                       measurements |-> <<>>]]

\* self.results["measurements"][name] = entry
SetEntry(v, name, entry) ==
    LET m == v.results.measurements
    IN  [v EXCEPT !.results.measurements =
            [n \in (DOMAIN m) \cup {name} |-> IF n = name THEN entry ELSE m[n]]]

Draw(v, prim) == [v EXCEPT !.overlay = Append(@, prim)]

----------------------------------------------------------------------------
(* AMDVisualizer.draw_contours (lines 94-121).                             *)

\* lines 96-99
ContourTargets == << <<LABEL_SRF, "SRF">>, <<LABEL_CYST, "Cyst">> >>

\* A slip: every non-background pixel counted, np.sum(mask_array > 0).
PixelCountAnyCode(mask, label_val) == Cardinality({p \in Pixels : mask[p] # 0})

\* lines 102-103: np.sum(binary_mask > 0)
PixelCount(mask, label_val) == Cardinality(Indicator(mask, label_val))

\* A slip: the presence test passing an empty lesion.
HasLesionOrNone(pixel_count) == pixel_count >= 0

\* line 105
HasLesion(pixel_count) == pixel_count > 0

\* One iteration of the loop of lines 101-121.  The contour is the paste of
\* a solid colour layer through the FIND_EDGES map of the binary mask.
ContourStep(v, target) ==
    LET label_val   == target[1]
        name        == target[2]
        pixel_count == PixelCount(v.mask_array, label_val)
    IN  IF HasLesion(pixel_count)
        THEN Draw(SetEntry(v, name,
                           [type  |-> "Area",
                            data  |-> _format_value(pixel_count, "area"),
                            color |-> COLORS[name].hex]),
                  [kind |-> "contour", name |-> name, color |-> COLORS[name].rgb,
                   edges_of |-> label_val])
        ELSE v

RECURSIVE ContourLoop(_, _)
ContourLoop(v, targets) ==
    IF targets = <<>> THEN v
    ELSE ContourLoop(ContourStep(v, Head(targets)), Tail(targets))

draw_contours(v) == ContourLoop(v, ContourTargets)

----------------------------------------------------------------------------
(* AMDVisualizer.draw_vertical_caliper (lines 123-189).                    *)

\* A slip: a later column of equal span replacing the earlier one.
TallerOrEqual(h, max_h) == h >= max_h

\* line 160
Taller(h, max_h) == h > max_h

\* lines 153-164: the scan of the region's columns, ascending x.
RECURSIVE ScanColumns(_, _, _)
ScanColumns(unique_xs, region, best) ==
    IF unique_xs = <<>> THEN best
    ELSE LET x  == Head(unique_xs)
             ys == {p[2] : p \in {q \in region : q[1] = x}}
             h  == SetMax(ys) - SetMin(ys)
         IN  ScanColumns(Tail(unique_xs), region,
                         IF Taller(h, best.max_h)
                         THEN [max_h |-> h, best_x |-> x,
                               best_y1 |-> SetMin(ys), best_y2 |-> SetMax(ys)]
                         ELSE best)

\* lines 146-164 for one region: its pixels and the locals after the scan.
MeasureRegion(region) ==
    LET best == ScanColumns(Unique({p[1] : p \in region}), region,
                            [max_h |-> 0, best_x |-> 0, best_y1 |-> 0, best_y2 |-> 0])
    IN  [pixels |-> region, max_h |-> best.max_h, best_x |-> best.best_x,
         best_y1 |-> best.best_y1, best_y2 |-> best.best_y2]

\* A slip: the threshold itself drawn as an arrow.
UseArrowAtThreshold(max_h) == max_h <= MIN_HEIGHT_FOR_CALIPER

\* line 170
UseArrow(max_h) == max_h < MIN_HEIGHT_FOR_CALIPER

\* _draw_arrow (lines 66-92): a filled triangle, tip up at y_tip, base at
\* y_base, and a tail below it.  tip_x is a half-integer: tip_x2 is twice it.
_draw_arrow(tip_x2, bottom_y, size, color) ==
    [kind |-> "arrow", name |-> "PED", color |-> color,
     tip_x2   |-> tip_x2,
     bottom_y |-> bottom_y,
     y_tip    |-> bottom_y + ArrowGap,
     y_base   |-> bottom_y + size + ArrowGap,
     tail_to  |-> bottom_y + size + ArrowGap + ArrowTailLen]

\* lines 172-176: the arrow points at the middle of the region's bottom row.
ArrowPrim(r) ==
    LET bottom_y     == SetMax({p[2] : p \in r.pixels})
        bottom_row_x == {p[1] : p \in {q \in r.pixels : q[2] = bottom_y}}
    IN  _draw_arrow(SetMin(bottom_row_x) + SetMax(bottom_row_x), bottom_y,
                    ArrowSize, COLORS["PED"].rgb)

\* lines 179-181: the vertical stroke and its two caps.
CaliperPrim(r) ==
    [kind |-> "caliper", name |-> "PED", color |-> COLORS["PED"].rgb,
     x |-> r.best_x, y1 |-> r.best_y1, y2 |-> r.best_y2,
     cap |-> CaliperCap, width |-> CaliperLineWidth]

RegionPrim(r) == IF UseArrow(r.max_h) THEN ArrowPrim(r) ELSE CaliperPrim(r)

RECURSIVE RegionLoop(_, _, _)
RegionLoop(v, regions, measurements_list) ==
    IF regions = <<>>
    THEN IF measurements_list # <<>>
         THEN SetEntry(v, "PED", [type  |-> "Max Height",
                                  data  |-> measurements_list,
                                  color |-> COLORS["PED"].hex])
         ELSE v
    ELSE LET r == MeasureRegion(Head(regions))
         IN  RegionLoop(Draw([v EXCEPT !.labeled = Append(@, r)], RegionPrim(r)),
                        Tail(regions),
                        Append(measurements_list, _format_value(r.max_h, "length")))

draw_vertical_caliper(v) ==
    LET labeled_array == Label(Indicator(v.mask_array, LABEL_PED))
    IN  IF Len(labeled_array) = 0 THEN v
        ELSE RegionLoop(v, labeled_array, <<>>)

----------------------------------------------------------------------------
(* AMDVisualizer.draw_legend (lines 191-205).                              *)

LegendOrder == <<"SRF", "Cyst", "PED">>

RECURSIVE LegendLoop(_, _, _)
LegendLoop(v, order, y0) ==
    IF order = <<>> THEN v
    ELSE IF Head(order) \notin DOMAIN v.results.measurements
         THEN LegendLoop(v, Tail(order), y0)
         ELSE LegendLoop(Draw(v, [kind |-> "swatch", name |-> Head(order),
                                  color |-> COLORS[Head(order)].rgb,
                                  x0 |-> LegendOrigin, y0 |-> y0,
                                  block |-> LegendBlock]),
                         Tail(order), y0 + LegendBlock + LegendGap)

draw_legend(v) ==
    IF DOMAIN v.results.measurements = {} THEN v
    ELSE LegendLoop(v, LegendOrder, LegendOrigin)

----------------------------------------------------------------------------
(* File names and the str / os.path helpers used by main and save_results. *)

\* ord(c) of the characters that occur in the file names.
Ord == ("." :> 46) @@ ("_" :> 95) @@
       ("A" :> 65) @@ ("B" :> 66) @@ ("E" :> 69) @@ ("G" :> 71) @@ ("J" :> 74) @@
       ("M" :> 77) @@ ("N" :> 78) @@ ("P" :> 80) @@ ("T" :> 84) @@ ("X" :> 88) @@
       ("a" :> 97) @@ ("b" :> 98) @@ ("e" :> 101) @@ ("g" :> 103) @@ ("j" :> 106) @@
       ("m" :> 109) @@ ("n" :> 110) @@ ("p" :> 112) @@ ("t" :> 116) @@ ("x" :> 120)

Chr(n) == CHOOSE c \in DOMAIN Ord : Ord[c] = n

\* str.lower(): "A".."Z" to "a".."z", every other character kept.
lower(s) == [i \in DOMAIN s |-> IF Ord[s[i]] \in 65 .. 90 THEN Chr(Ord[s[i]] + 32)
                                ELSE s[i]]

\* str.endswith(suffix) and str.endswith(tuple of suffixes)
endswith(s, suffix) ==
    /\ Len(suffix) <= Len(s)
    /\ SubSeq(s, Len(s) - Len(suffix) + 1, Len(s)) = suffix
endswith_any(s, suffixes) == \E suffix \in suffixes : endswith(s, suffix)

\* s < t for str: at the first difference the smaller code point, or a
\* proper prefix.
StrLess(s, t) ==
    \E k \in 1 .. Len(t) :
        /\ \A i \in 1 .. k - 1 : i <= Len(s) /\ s[i] = t[i]
        /\ k > Len(s) \/ Ord[s[k]] < Ord[t[k]]

\* sorted(...) of line 235
RECURSIVE Sorted(_)
Sorted(S) ==
    IF S = {} THEN <<>>
    ELSE LET f == CHOOSE g \in S : \A h \in S \ {g} : StrLess(g, h)
         IN  <<f>> \o Sorted(S \ {f})

\* The suffixes of line 235.
ImageSuffixes == {<<".", "p", "n", "g">>, <<".", "j", "p", "g">>,
                  <<".", "j", "p", "e", "g">>, <<".", "b", "m", "p">>}

\* f.lower().endswith(('.png', '.jpg', '.jpeg', '.bmp'))
IsImage(f) == endswith_any(lower(f), ImageSuffixes)

\* os.path.splitext(p) of a name without a directory part: the extension
\* starts at the last dot, unless only dots come before it.
splitext(p) ==
    LET dots == {i \in DOMAIN p : p[i] = "."}
        dotIndex == IF dots = {} THEN 0 ELSE SetMax(dots)
    IN  IF \E i \in 1 .. dotIndex - 1 : p[i] # "."
        THEN <<SubSeq(p, 1, dotIndex - 1), SubSeq(p, dotIndex, Len(p))>>
        ELSE <<p, <<>> >>

\* f"{base_name}_overlay.png" and f"{base_name}_result.json" (lines 208-217)
OverlaySuffix == <<"_", "o", "v", "e", "r", "l", "a", "y", ".", "p", "n", "g">>
JsonSuffix == <<"_", "r", "e", "s", "u", "l", "t", ".", "j", "s", "o", "n">>
OverlayName(f) == splitext(f)[1] \o OverlaySuffix
JsonName(f) == splitext(f)[1] \o JsonSuffix

\* The names that may lie in raw_image/:
\* ".png", "A.PNG", "a.jpg", "a.png", "b.txt".
Names == {<<".", "p", "n", "g">>, <<"A", ".", "P", "N", "G">>,
          <<"a", ".", "j", "p", "g">>, <<"a", ".", "p", "n", "g">>,
          <<"b", ".", "t", "x", "t">>}

----------------------------------------------------------------------------
(* Inputs: what raw_image/ and seg_mask/ hold when main starts.            *)

MaskOf(S, code) == [p \in Pixels |-> IF p \in S THEN code ELSE 0]

\* Free-form PED shapes in the top three rows.
Window == (0 .. Width - 1) \X (0 .. 2)
PatternMasks ==
    {MaskOf(S, LABEL_PED) : S \in {T \in SUBSET Window : Cardinality(T) <= MaxPixels}}

\* In every column, nothing or one vertical PED bar <<top, span>>: from the
\* top row with a span of 0 or around the caliper threshold, or from the
\* second row with the threshold's span.
BarChoices ==
    {<<0, -1>>, <<1, MIN_HEIGHT_FOR_CALIPER>>} \cup
    ({0} \X {0, MIN_HEIGHT_FOR_CALIPER - 1, MIN_HEIGHT_FOR_CALIPER,
             MIN_HEIGHT_FOR_CALIPER + 1})
BarMasks ==
    {[p \in Pixels |-> IF bars[p[1]][1] <= p[2] /\ p[2] <= bars[p[1]][1] + bars[p[1]][2]
                       THEN LABEL_PED ELSE 0] :
        bars \in [0 .. Width - 1 -> BarChoices]}

\* Any mix of codes, known and unknown: one code per column, on the first
\* two rows.
Codes == {0, LABEL_SRF, LABEL_CYST, LABEL_PED} \cup UnknownCodes
CodeMasks ==
    {[p \in Pixels |-> IF p[2] < 2 THEN row[p[1]] ELSE 0] :
        row \in [0 .. Width - 1 -> Codes]}

\* Mask files of another size than the raw image: twice as wide and as
\* high with one lesion pixel near a corner, or a single pixel.
DoubleGrid == (0 .. 2 * Width - 1) \X (0 .. 2 * Height - 1)
DoubleMasks ==
    {[p \in DoubleGrid |-> IF p = q THEN code ELSE 0] :
        q \in {0, 1, 2 * Width - 1} \X {0, 1, 2 * Height - 1},
        code \in {LABEL_SRF, LABEL_PED}}
UnitMasks == {[p \in {<<0, 0>>} |-> code] : code \in Codes}

MaskSet ==
    {MaskFile(Width, Height, m) : m \in PatternMasks \cup BarMasks \cup CodeMasks}
        \cup {MaskFile(2 * Width, 2 * Height, m) : m \in DoubleMasks}
        \cup {MaskFile(1, 1, m) : m \in UnitMasks}

\* A directory entry: whether the raw image decodes, and the mask file of the
\* same name in seg_mask/ (absent, undecodable, or a decoded mask).
Entry(raw, mask) == [raw |-> raw, mask |-> mask]

BatchMasks == {MaskFile(Width, Height, MaskOf({<<0, 0>>}, LABEL_SRF)),
               MaskFile(Width, Height, MaskOf({<<0, 0>>, <<1, 0>>}, LABEL_CYST))}

BatchEntries ==
    {Entry("ok", <<"mask", m>>) : m \in BatchMasks}
        \cup {Entry("ok", <<"missing">>), Entry("ok", <<"corrupt">>)}

\* One image with any mask of MaskSet or with an undecodable raw image, or up
\* to MaxFiles files of any kind.
SingleDirs ==
    {(<<"a", ".", "p", "n", "g">> :> Entry("ok", <<"mask", m>>)) : m \in MaskSet}
        \cup {(<<"a", ".", "p", "n", "g">> :> Entry("corrupt", <<"mask", m>>)) :
                  m \in BatchMasks}
BatchDirs ==
    UNION {[D -> BatchEntries] : D \in {E \in SUBSET Names : Cardinality(E) <= MaxFiles}}
Directories == SingleDirs \cup BatchDirs

----------------------------------------------------------------------------
VARIABLES
    inputs,     \* raw_image/ and seg_mask/: file name -> Entry
    outputs,    \* output_result/: output name -> content
    raw_files,  \* main's sorted list
    idx,        \* position of the for loop in raw_files (from 1)
    pc,         \* where main is
    viz,        \* the AMDVisualizer of the image in hand, or NoViz
    log,        \* what main printed: <<"SKIP" | "ERROR" | "DONE", filename>>
    helper      \* the call of create_composite_images: "idle" before it, then
                \* "returned" or the exception it raised

vars == <<inputs, outputs, raw_files, idx, pc, viz, log, helper>>

NoViz == <<>>

Init ==
    /\ inputs \in Directories
    /\ outputs = <<>>
    /\ raw_files = <<>>
    /\ idx = 0
    /\ pc = "start"
    /\ viz = NoViz
    /\ log = <<>>
    /\ helper = "idle"

filename == raw_files[idx]

\* lines 231-241
MainList ==
    /\ pc = "start"
    /\ UNCHANGED helper
    /\ raw_files' = Sorted({f \in DOMAIN inputs : IsImage(f)})
    /\ IF raw_files' = <<>>
       THEN pc' = "done" /\ idx' = 0
       ELSE pc' = "loop" /\ idx' = 1
    /\ UNCHANGED <<inputs, outputs, viz, log>>

\* lines 243-249: the next file name; no mask of that name is a skip.
MainNext ==
    /\ pc = "loop"
    /\ idx <= Len(raw_files)
    /\ UNCHANGED helper
    /\ IF inputs[filename].mask = <<"missing">>
       THEN /\ log' = Append(log, <<"SKIP", filename>>)
            /\ idx' = idx + 1
            /\ pc' = "loop"
       ELSE /\ pc' = "construct"
            /\ UNCHANGED <<idx, log>>
    /\ UNCHANGED <<inputs, outputs, raw_files, viz>>

\* the for loop is exhausted
MainEnd ==
    /\ pc = "loop"
    /\ idx > Len(raw_files)
    /\ UNCHANGED helper
    /\ pc' = "done"
    /\ UNCHANGED <<inputs, outputs, raw_files, idx, viz, log>>

\* A slip: the error handler leaving the loop.
StopAfterError == "done"

\* Where main goes after the except clause of lines 264-267: the next file.
AfterError == "loop"

\* lines 264-267: report, then the next iteration.
Except(out) ==
    /\ log' = Append(log, <<"ERROR", filename>>)
    /\ outputs' = out
    /\ idx' = idx + 1
    /\ pc' = AfterError
    /\ viz' = NoViz
    /\ UNCHANGED <<inputs, raw_files>>

\* line 252: Image.open raises on an undecodable raw image or mask.
Construct ==
    /\ pc = "construct"
    /\ UNCHANGED helper
    /\ IF inputs[filename].raw = "corrupt" \/ inputs[filename].mask = <<"corrupt">>
       THEN Except(outputs)
       ELSE /\ viz' = AMDVisualizer(filename, inputs[filename].mask[2])
            /\ pc' = "draw_contours"
            /\ UNCHANGED <<inputs, outputs, raw_files, idx, log>>

\* line 254
DrawContours ==
    /\ pc = "draw_contours"
    /\ UNCHANGED helper
    /\ viz' = draw_contours(viz)
    /\ pc' = "draw_vertical_caliper"
    /\ UNCHANGED <<inputs, outputs, raw_files, idx, log>>

\* line 255
DrawVerticalCaliper ==
    /\ pc = "draw_vertical_caliper"
    /\ UNCHANGED helper
    /\ viz' = draw_vertical_caliper(viz)
    /\ pc' = "draw_legend"
    /\ UNCHANGED <<inputs, outputs, raw_files, idx, log>>

\* line 256
DrawLegend ==
    /\ pc = "draw_legend"
    /\ UNCHANGED helper
    /\ viz' = draw_legend(viz)
    /\ pc' = "save_results"
    /\ UNCHANGED <<inputs, outputs, raw_files, idx, log>>

\* A file of output_result/ written to its end, and one whose write failed
\* part-way: it holds a prefix of the bytes, possibly none.
File(content) == [whole |-> TRUE, content |-> content]
CutFile(content) == [whole |-> FALSE, content |-> content]

\* The file `name` of output_result/ created or replaced.
Write(out, name, file) ==
    [n \in (DOMAIN out) \cup {name} |-> IF n = name THEN file ELSE out[n]]

\* self.overlay_image.save(overlay_path), line 214
SaveOverlay(out, v) == Write(out, OverlayName(v.filename), File(v.overlay))

\* json.dump(self.results, f, ...) with the key of line 220 added
JsonRecord(v) ==
    [filename      |-> v.results.filename,
     image_width   |-> v.results.image_width,
     image_height  |-> v.results.image_height,
     measurements  |-> v.results.measurements,
     overlay_image |-> OverlayName(v.filename)]

\* What save_results leaves when both writes succeed (lines 208-225).
save_results(out, v) == Write(SaveOverlay(out, v), JsonName(v.filename), File(JsonRecord(v)))

(* The file system may refuse either write of save_results with an OSError,*)
(* when the file is opened or while it is written.  What is left then:     *)
(*   overlay_open_error   output_result/ as it was;                        *)
(*   overlay_write_error  the overlay file cut (Pillow opens it with "w+b" *)
(*                        and, depending on its version, may remove a file *)
(*                        it created: that leaves output_result/ as in     *)
(*                        overlay_open_error);                             *)
(*   json_open_error      the overlay saved, the JSON file as it was;      *)
(*   json_write_error     the overlay saved, the JSON file cut: open(_,    *)
(*                        'w') emptied it and json.dump stopped part-way.  *)
SaveOutcomes == {"saved", "overlay_open_error", "overlay_write_error",
                 "json_open_error", "json_write_error"}

AfterSaveError(outcome, out, v) ==
    CASE outcome = "overlay_open_error"  -> out
      [] outcome = "overlay_write_error" -> Write(out, OverlayName(v.filename), CutFile(v.overlay))
      [] outcome = "json_open_error"     -> SaveOverlay(out, v)
      [] outcome = "json_write_error"    ->
             Write(SaveOverlay(out, v), JsonName(v.filename), CutFile(JsonRecord(v)))

\* lines 258-262, and the except clause when save_results raises.
SaveResults ==
    /\ pc = "save_results"
    /\ UNCHANGED helper
    /\ \E outcome \in SaveOutcomes :
          IF outcome = "saved"
          THEN /\ outputs' = save_results(outputs, viz)
               /\ log' = Append(log, <<"DONE", filename>>)
               /\ idx' = idx + 1
               /\ pc' = "loop"
               /\ viz' = NoViz
               /\ UNCHANGED <<inputs, raw_files>>
          ELSE Except(AfterSaveError(outcome, outputs, viz))

----------------------------------------------------------------------------
(* create_composite_images(viz) of test_composite.py (lines 11-41): the    *)
(* test helper a caller of the module may run on a visualizer once an      *)
(* overlay has been saved.  main does not call it.                         *)

AnalyzedSuffix == <<"_", "a", "n", "a", "l", "y", "z", "e", "d", ".", "p", "n", "g">>
MaskAnalyzedSuffix == <<"_", "m", "a", "s", "k">> \o AnalyzedSuffix
AnalyzedName(f) == splitext(f)[1] \o AnalyzedSuffix
MaskAnalyzedName(f) == splitext(f)[1] \o MaskAnalyzedSuffix

\* Image.alpha_composite(base, overlay_image).convert("RGB")
Composite(base, overlay_image) == [base |-> base, over |-> overlay_image]

(* The overlay is read back from output_result/, not taken from viz.  No   *)
(* overlay file raises FileNotFoundError; a cut one decodes only when all  *)
(* its image data got written (`decodes`), else Image.open(...).convert    *)
(* raises.  Either save may be refused by the file system like those of    *)
(* save_results.  The result: the exception raised, or "none", and what    *)
(* output_result/ holds afterwards.                                        *)
CompositeOutcomes == {"saved", "analyzed_open_error", "analyzed_write_error",
                      "mask_analyzed_open_error", "mask_analyzed_write_error"}

create_composite_images(out, v, decodes, outcome) ==
    LET overlay_name == OverlayName(v.filename)
    IN  IF overlay_name \notin DOMAIN out
        THEN [raised |-> "FileNotFoundError", out |-> out]
        ELSE IF ~out[overlay_name].whole /\ ~decodes
        THEN [raised |-> "OSError", out |-> out]
        ELSE
        LET overlay_image == out[overlay_name].content
            analyzed      == Composite(v.raw_image, overlay_image)
            mask_analyzed == Composite(v.mask_image, overlay_image)
            first         == Write(out, AnalyzedName(v.filename), File(analyzed))
        IN  CASE outcome = "analyzed_open_error" ->
                     [raised |-> "OSError", out |-> out]
              [] outcome = "analyzed_write_error" ->
                     [raised |-> "OSError",
                      out |-> Write(out, AnalyzedName(v.filename), CutFile(analyzed))]
              [] outcome = "mask_analyzed_open_error" ->
                     [raised |-> "OSError", out |-> first]
              [] outcome = "mask_analyzed_write_error" ->
                     [raised |-> "OSError",
                      out |-> Write(first, MaskAnalyzedName(v.filename),
                                    CutFile(mask_analyzed))]
              [] outcome = "saved" ->
                     [raised |-> "none",
                      out |-> Write(first, MaskAnalyzedName(v.filename),
                                    File(mask_analyzed))]

\* One call of the helper after main's run, on the visualizer of any image
\* of raw_image/ that decodes together with its mask.  An exception goes to
\* the caller; output_result/ is as the call left it.
CreateCompositeImages ==
    /\ pc = "done"
    /\ helper = "idle"
    /\ \E f \in DOMAIN inputs, decodes \in BOOLEAN, outcome \in CompositeOutcomes :
          /\ inputs[f].raw = "ok"
          /\ inputs[f].mask[1] = "mask"
          /\ LET call == create_composite_images(
                             outputs, AMDVisualizer(f, inputs[f].mask[2]),
                             decodes, outcome)
             IN  /\ outputs' = call.out
                 /\ helper' = IF call.raised = "none" THEN "returned" ELSE call.raised
    /\ UNCHANGED <<inputs, raw_files, idx, pc, viz, log>>

\* A step of main (lines 230-267).
main ==
    \/ MainList
    \/ MainNext
    \/ MainEnd
    \/ Construct
    \/ DrawContours
    \/ DrawVerticalCaliper
    \/ DrawLegend
    \/ SaveResults

Next ==
    \/ main
    \/ CreateCompositeImages

Spec == Init /\ [][Next]_vars

\* A batch run: raw_image/ holds up to MaxFiles files of any kind.
BatchInit == Init /\ inputs \in BatchDirs

\* A run of amd_analysis.py alone.  main is one sequential thread: a step
\* of it that can be taken is taken.
FairSpec == BatchInit /\ [][main]_vars /\ WF_vars(main)

----------------------------------------------------------------------------
(* Vocabulary of the properties, defined from the mask alone.              *)

\* draw_contours, draw_vertical_caliper and draw_legend have run on viz.
Analysed == pc = "save_results"

Measurements == viz.results.measurements

LesionCode(name) ==
    CASE name = "SRF" -> LABEL_SRF [] name = "Cyst" -> LABEL_CYST [] name = "PED" -> LABEL_PED

PixelsOf(code) == {p \in Pixels : viz.mask_array[p] = code}

DrawnFor(name) == {i \in DOMAIN viz.overlay : viz.overlay[i].name = name}

\* The PED annotations in draw order: one per pass of the region loop.
IsPedMark(q) == q.name = "PED" /\ q.kind \in {"arrow", "caliper"}
PedMarks == SelectSeq(viz.overlay, IsPedMark)

ColumnsOf(region) == {p[1] : p \in region}
ColumnSpan(region, x) ==
    LET ys == {p[2] : p \in {q \in region : q[1] = x}} IN SetMax(ys) - SetMin(ys)
MaxSpan(region) == SetMax({ColumnSpan(region, x) : x \in ColumnsOf(region)})
FirstTallest(region) ==
    LET h == MaxSpan(region)
    IN  SetMin({x \in ColumnsOf(region) : ColumnSpan(region, x) = h})
ColumnTop(region, x) == SetMin({p[2] : p \in {q \in region : q[1] = x}})
ColumnBottom(region, x) == SetMax({p[2] : p \in {q \in region : q[1] = x}})

\* The pixels that touch p: along an edge, or along an edge or at a corner.
Around(p, diagonal) ==
    {<<p[1] + d[1], p[2] + d[2]>> :
        d \in IF diagonal
              THEN ({-1, 0, 1} \X {-1, 0, 1}) \ {<<0, 0>>}
              ELSE {<<-1, 0>>, <<1, 0>>, <<0, -1>>, <<0, 1>>}}

Touch(p, q, diagonal) == q \in Around(p, diagonal)

\* The pixels of fg joined to `found` by a chain of touching pixels of fg.
RECURSIVE Closure(_, _, _, _)
Closure(found, fresh, fg, diagonal) ==
    IF fresh = {} THEN found
    ELSE LET more == (UNION {Around(p, diagonal) : p \in fresh} \cap fg) \ found
         IN  Closure(found \cup more, more, fg, diagonal)

ComponentOf(p, fg, diagonal) == Closure({p}, {p}, fg, diagonal)

RECURSIVE Components(_, _)
Components(fg, diagonal) ==
    IF fg = {} THEN {}
    ELSE LET c == ComponentOf(CHOOSE p \in fg : TRUE, fg, diagonal)
         IN  {c} \cup Components(fg \ c, diagonal)

RegionSets == {viz.labeled[i].pixels : i \in DOMAIN viz.labeled}

PedData == IF "PED" \in DOMAIN Measurements THEN Measurements["PED"].data ELSE <<>>

----------------------------------------------------------------------------
(* C1: a lesion type with no pixel of its code in the mask has, once the   *)
(* three draw passes have run, no entry in the measurements record and no  *)
(* contour, caliper, arrow or legend swatch on the overlay.                *)
C1_AbsentTypeOmitted ==
    Analysed =>
        \A name \in {"SRF", "Cyst", "PED"} :
            PixelsOf(LesionCode(name)) = {} =>
                /\ name \notin DOMAIN Measurements
                /\ DrawnFor(name) = {}

\* Cyst is measured and drawn while SRF and PED, absent, leave no trace.
C1_Witness ==
    /\ Analysed
    /\ PixelsOf(LABEL_SRF) = {} /\ PixelsOf(LABEL_PED) = {}
    /\ DOMAIN Measurements = {"Cyst"}
    /\ Len(viz.overlay) = 2

(* C2: for SRF and Cyst, when present, the Area entry is the exact number  *)
(* of pixels carrying the type's code, in unit px, with type Area; pixels  *)
(* of any other code add nothing.                                          *)
C2_AreaIsPixelCount ==
    Analysed =>
        \A name \in {"SRF", "Cyst"} :
            LET n == Cardinality(PixelsOf(LesionCode(name)))
            IN  n > 0 =>
                  /\ name \in DOMAIN Measurements
                  /\ Measurements[name].type = "Area"
                  /\ Measurements[name].data = [value |-> n, unit |-> "px"]

\* Two SRF pixels beside a pixel of an unknown code: the area is 2.
C2_Witness ==
    /\ Analysed
    /\ Cardinality(PixelsOf(LABEL_SRF)) = 2
    /\ \E d \in UnknownCodes : PixelsOf(d) # {}
    /\ Measurements["SRF"].data.value = 2

(* C3: the height recorded for a PED region is the greatest column span    *)
(* (max y - min y) of the region, and the column the caliper is drawn on   *)
(* is the smallest x with that span, from that column's top to its bottom. *)
C3_TallestColumnFirstX ==
    Analysed =>
        /\ Len(PedData) = Len(viz.labeled)
        /\ Len(PedMarks) = Len(viz.labeled)
        /\ \A i \in DOMAIN viz.labeled :
              LET region == viz.labeled[i].pixels
                  x      == FirstTallest(region)
              IN  /\ PedData[i].value = MaxSpan(region)
                  /\ viz.labeled[i].max_h = MaxSpan(region)
                  /\ MaxSpan(region) > 0 =>
                        /\ viz.labeled[i].best_x = x
                        /\ viz.labeled[i].best_y1 = ColumnTop(region, x)
                        /\ viz.labeled[i].best_y2 = ColumnBottom(region, x)
                  /\ PedMarks[i].kind = "caliper" =>
                        /\ PedMarks[i].x = x
                        /\ PedMarks[i].y1 = ColumnTop(region, x)
                        /\ PedMarks[i].y2 = ColumnBottom(region, x)

\* A region drawn with a caliper in which two columns tie for the greatest
\* span and a shorter column lies to their left.
C3_Witness ==
    /\ Analysed
    /\ \E i \in DOMAIN viz.labeled :
          LET region == viz.labeled[i].pixels
          IN  /\ PedMarks[i].kind = "caliper"
              /\ Cardinality({x \in ColumnsOf(region) :
                                 ColumnSpan(region, x) = MaxSpan(region)}) >= 2
              /\ \E x \in ColumnsOf(region) :
                    x < FirstTallest(region) /\ ColumnSpan(region, x) < MaxSpan(region)
              /\ PedMarks[i].x = FirstTallest(region)

(* C4, as claimed: the PED regions are the maximal 8-connected components  *)
(* of the PED pixels, so pixels touching only diagonally share a region    *)
(* and the PED data list has one entry per 8-connected component.          *)
C4_RegionsEightConnected ==
    Analysed =>
        /\ RegionSets = Components(PixelsOf(LABEL_PED), TRUE)
        /\ Len(PedData) = Cardinality(Components(PixelsOf(LABEL_PED), TRUE))

(* C4, amended: the PED regions are the maximal 4-connected components:    *)
(* every PED pixel lies in exactly one region, edge-adjacent PED pixels    *)
(* share a region, every region is connected through edge-adjacent pixels  *)
(* alone, and the PED data list has one entry per region.                  *)
C4_RegionsFourConnected ==
    Analysed =>
        /\ UNION RegionSets = PixelsOf(LABEL_PED)
        /\ \A i, j \in DOMAIN viz.labeled :
              i # j => viz.labeled[i].pixels \cap viz.labeled[j].pixels = {}
        /\ \A i \in DOMAIN viz.labeled :
              /\ viz.labeled[i].pixels # {}
              /\ viz.labeled[i].pixels \subseteq PixelsOf(LABEL_PED)
              /\ \E p \in viz.labeled[i].pixels :
                    ComponentOf(p, viz.labeled[i].pixels, FALSE) = viz.labeled[i].pixels
              /\ \A p \in viz.labeled[i].pixels :
                    Around(p, FALSE) \cap PixelsOf(LABEL_PED) \subseteq viz.labeled[i].pixels
        /\ Len(PedData) = Len(viz.labeled)
        /\ Len(viz.labeled) = Cardinality(Components(PixelsOf(LABEL_PED), FALSE))

\* Two PED pixels that touch only at a corner end up in two regions.
C4_Witness ==
    /\ Analysed
    /\ \E p, q \in PixelsOf(LABEL_PED) :
          /\ Touch(p, q, TRUE) /\ ~Touch(p, q, FALSE)
          /\ \E i, j \in DOMAIN viz.labeled :
                i # j /\ p \in viz.labeled[i].pixels /\ q \in viz.labeled[j].pixels
    /\ Len(PedData) = 2

(* C5: every PED region gets exactly one annotation, chosen by its height  *)
(* h (greatest column span): an I-beam caliper when h >= 15, an arrow when *)
(* h <= 14; its measurement is recorded either way.                        *)
C5_CaliperFromThreshold ==
    Analysed =>
        /\ Len(PedMarks) = Len(viz.labeled)
        /\ Cardinality(DrawnFor("PED")) =
              IF viz.labeled = <<>> THEN 0 ELSE Len(viz.labeled) + 1
        /\ Len(PedData) = Len(viz.labeled)
        /\ \A i \in DOMAIN viz.labeled :
              LET region == viz.labeled[i].pixels
                  h      == MaxSpan(region)
              IN  /\ PedData[i] = [value |-> h, unit |-> "px"]
                  /\ h >= 15 => /\ PedMarks[i].kind = "caliper"
                                /\ PedMarks[i].x \in ColumnsOf(region)
                  /\ h <= 14 => /\ PedMarks[i].kind = "arrow"
                                /\ PedMarks[i].bottom_y = SetMax({p[2] : p \in region})

\* One mask with a region of height 15, drawn as a caliper, and a region of
\* height 14, drawn as an arrow.
C5_Witness ==
    /\ Analysed
    /\ \E i, j \in DOMAIN viz.labeled :
          /\ MaxSpan(viz.labeled[i].pixels) = 15 /\ PedMarks[i].kind = "caliper"
          /\ MaxSpan(viz.labeled[j].pixels) = 14 /\ PedMarks[j].kind = "arrow"

----------------------------------------------------------------------------
(* Vocabulary of the batch properties.                                     *)

Last(q) == q[Len(q)]

\* The step main takes reports an error for the image in hand.
ReportsError == Len(log') = Len(log) + 1 /\ Last(log')[1] = "ERROR"

Reported(kind) == {log[i][2] : i \in {j \in DOMAIN log : log[j][1] = kind}}

\* Every listed image has exactly one report, in list order.
OneReportEach ==
    /\ Len(log) = Len(raw_files)
    /\ \A i \in DOMAIN log :
          /\ log[i][2] = raw_files[i]
          /\ log[i][1] \in {"DONE", "SKIP", "ERROR"}

\* The list is the image names of raw_image/, ascending.
ListedInOrder ==
    /\ {raw_files[i] : i \in DOMAIN raw_files} = {f \in DOMAIN inputs : IsImage(f)}
    /\ \A i, j \in DOMAIN raw_files : i < j => StrLess(raw_files[i], raw_files[j])

\* While an image is in hand, the images before it, and only they, are reported.
OneAtATime ==
    pc \in {"construct", "draw_contours", "draw_vertical_caliper", "draw_legend",
            "save_results"} =>
        /\ idx \in DOMAIN raw_files
        /\ Len(log) = idx - 1
        /\ pc # "construct" => viz.filename = raw_files[idx]

\* What the pipeline computes for image f, from its mask alone.
ExpectedViz(f) ==
    draw_legend(draw_vertical_caliper(draw_contours(
        AMDVisualizer(f, inputs[f].mask[2]))))

(* C6: no partial commit.  A step of main that ends an image's pipeline    *)
(* with an error, raised at any stage and also inside save_results, leaves *)
(* output_result/ as it was: neither the overlay nor the JSON record of    *)
(* that image has been persisted.                                          *)
C6_NoPartialCommit == [][ReportsError => outputs' = outputs]_vars

(* C7: an error on one image is reported and never stops the run: the      *)
(* images are taken in sorted name order, one at a time, and the run ends  *)
(* with every listed image reported exactly once as done, skipped or       *)
(* failed.                                                                 *)
C7_BatchRunsToTheEnd ==
    /\ [](pc # "start" => ListedInOrder)
    /\ [](OneAtATime)
    /\ [](pc = "done" => OneReportEach)
    /\ <>(pc = "done")

\* The run is over, an image failed and a later image was completed.
C7_Witness ==
    /\ pc = "done"
    /\ \E i, j \in DOMAIN log : i < j /\ log[i][1] = "ERROR" /\ log[j][1] = "DONE"
    /\ OneReportEach

(* C8, as claimed: the converter's result follows the measurement kind and *)
(* the pixel spacing s: with a spacing, a length is value_px * s in um     *)
(* (1 decimal) and an area is value_px * s^2 / 1,000,000 in mm2 (4         *)
(* decimals).  Stated for every spacing a caller could hold: the recorded  *)
(* PED heights are in um, the SRF and Cyst areas in mm2.                   *)
Spacings == {2, 1000}

\* n / d rounded to the nearest integer, ties to even (Python's round).
RoundDiv(n, d) ==
    LET q == n \div d
        r == n % d
    IN  IF 2 * r > d \/ (2 * r = d /\ q % 2 = 1) THEN q + 1 ELSE q

C8_ConvertsWithSpacing ==
    Analysed =>
        \A s \in Spacings :
            /\ \A i \in DOMAIN viz.labeled :
                  PedData[i] = [value |-> MaxSpan(viz.labeled[i].pixels) * s, unit |-> "um"]
            /\ \A name \in {"SRF", "Cyst"} :
                  name \in DOMAIN Measurements =>
                      /\ Measurements[name].data.unit = "mm2"
                      /\ Measurements[name].data.value * 10000 =
                            RoundDiv(Cardinality(PixelsOf(LesionCode(name))) * s * s, 100)

(* C8, amended: the converter takes no pixel spacing and does not read the *)
(* kind: every recorded value, an area or a height, is the pixel value     *)
(* itself with unit px.                                                    *)
C8_AlwaysPixels ==
    Analysed =>
        /\ \A i \in DOMAIN viz.labeled :
              PedData[i] = [value |-> MaxSpan(viz.labeled[i].pixels), unit |-> "px"]
        /\ \A name \in {"SRF", "Cyst"} :
              name \in DOMAIN Measurements =>
                  Measurements[name].data =
                      [value |-> Cardinality(PixelsOf(LesionCode(name))), unit |-> "px"]

\* An area and a height have both been recorded, both in px.
C8_Witness ==
    /\ Analysed
    /\ {"SRF", "PED"} \subseteq DOMAIN Measurements
    /\ Measurements["SRF"].data.unit = "px"
    /\ PedData[1].unit = "px"
    /\ \E i \in DOMAIN viz.labeled : MaxSpan(viz.labeled[i].pixels) > 0

(* C9, as claimed: a mask with a Drusen pixel yields a Drusen entry whose  *)
(* width is max(x) - min(x) over the Drusen pixels within 3 rows of the    *)
(* lowest one.  The table has no Drusen code; stated for any code outside  *)
(* the table taken as Drusen's.                                            *)
C9_DrusenWidthRecorded ==
    Analysed =>
        \A d \in UnknownCodes :
            PixelsOf(d) # {} =>
                LET base_y == SetMax({p[2] : p \in PixelsOf(d)})
                    band   == {p[1] : p \in {q \in PixelsOf(d) : q[2] >= base_y - 3}}
                IN  /\ "Drusen" \in DOMAIN Measurements
                    /\ Measurements["Drusen"].data.value = SetMax(band) - SetMin(band)

\* The mask with every code outside the table replaced by background.
KnownOnly(mask) ==
    [p \in Pixels |-> IF mask[p] \in {LABEL_SRF, LABEL_CYST, LABEL_PED} THEN mask[p] ELSE 0]

(* C9, amended: only SRF, Cyst and PED are measured.  Pixels of any other  *)
(* code, whatever lesion they stand for, are background: the record has no *)
(* Drusen entry, nothing is drawn for one, and record and overlay are      *)
(* those of the mask without these pixels.                                 *)
C9_OnlyTableCodesMeasured ==
    Analysed =>
        /\ DOMAIN Measurements \subseteq {"SRF", "Cyst", "PED"}
        /\ \A i \in DOMAIN viz.overlay : viz.overlay[i].name \in {"SRF", "Cyst", "PED"}
        /\ LET clean == draw_legend(draw_vertical_caliper(draw_contours(
                            AMDVisualizer(viz.filename,
                                          MaskFile(Width, Height,
                                                   KnownOnly(viz.mask_array))))))
           IN  /\ viz.results = clean.results
               /\ viz.overlay = clean.overlay

\* A mask with pixels of an unknown code next to measured lesions.
C9_Witness ==
    /\ Analysed
    /\ \E d \in UnknownCodes : Cardinality(PixelsOf(d)) >= 2
    /\ DOMAIN Measurements # {}
    /\ "Drusen" \notin DOMAIN Measurements

(* C10: once the run is over, every image reported done has its own        *)
(* overlay file and JSON record in output_result/, holding that image's    *)
(* result: no image's outputs were overwritten by another image's.         *)
C10_OutputsKeptApart ==
    pc = "done" =>
        \A f \in Reported("DONE") :
            /\ JsonName(f) \in DOMAIN outputs
            /\ OverlayName(f) \in DOMAIN outputs
            /\ outputs[JsonName(f)] = File(JsonRecord(ExpectedViz(f)))
            /\ outputs[OverlayName(f)] = File(ExpectedViz(f).overlay)

====
